---- MODULE Spec2Model ----
(***************************************************************************)
(* Model of the eye-gymnastics countdown primitive (useCountdown.ts) and   *)
(* of the session controller built on two countdowns                       *)
(* (useExerciseController.ts).                                             *)
(*                                                                         *)
(* Time is in milliseconds and is measured from the present instant: the   *)
(* clock reads Clock, a timestamp is kept as its distance from the clock,   *)
(* and the passing of time (Advance) moves every timestamp the program     *)
(* holds, in memory and in storage, towards the past.  The code only       *)
(* compares a timestamp with Date.now() (<=, >, or a difference clamped at *)
(* zero), so a timestamp in the past is kept as the present instant.       *)
(*                                                                         *)
(* One action of the model is one                                          *)
(* task of the browser's event loop: a user call, a timer callback, a      *)
(* focus / visibility event, a settings change, closing or opening the     *)
(* page.  Every state update a task queues is applied in the order it was  *)
(* queued, then the component renders once and the effects whose inputs    *)
(* changed run; all of that is part of the action.                         *)
(*                                                                         *)
(* An optional value (null in the source) is a sequence: <<>> is null and  *)
(* <<v>> is the value v.                                                   *)
(***************************************************************************)
EXTENDS Integers, Sequences, FiniteSets, TLC

VARIABLES
  mounted,    \* TRUE while the page is open and the hooks are mounted
  exercise,   \* the Exercise prop: its two durations, in seconds
  phase,      \* controller state `phase`
  breakDue,   \* controller state `breakDue`
  hydrated,   \* persistedStateHydratedRef.current
  timers,     \* the two countdowns: state, refs and scheduled callbacks
  storage,    \* window.localStorage, the keys of this exercise
  pending,    \* the startExercise call suspended at its await, if any
  last,       \* history: what the last task was and what it emitted
  runs,       \* history of a countdown used on its own: its current run
  env         \* the collaborators: whether storage calls and notifications throw

vars == <<mounted, exercise, phase, breakDue, hydrated, timers, storage, pending, last, runs, env>>

\* ------------------------------------------------------------------ bounds

MaxWork == 2        \* work durations range over 1..MaxWork seconds
MaxBreak == 1       \* break durations range over 1..MaxBreak seconds
StackLimit == 3     \* nested calls of start that the engine's stack has room for

\* --------------------------------------------------------------- constants

MsPerSecond == 1000

TimeStep == MsPerSecond \div 2

\* Date.now(): the present instant is the origin of time
Clock == 0

Timers == {"work", "break"}

Max(a, b) == IF a >= b THEN a ELSE b

Min(a, b) == IF a <= b THEN a ELSE b

\* Math.floor(diff / 1000) in the place of Math.ceil
FloorSeconds(diff) == diff \div MsPerSecond

\* Math.ceil(diff / 1000) for an integer diff of either sign
CeilSeconds(diff) == -((-diff) \div MsPerSecond)

\* Math.max(0, Math.ceil(diff / 1000))
RemainingFrom(diff) == Max(0, CeilSeconds(diff))

toPositiveInteger(value) == Max(0, value)

Exercises == [workDurationSeconds : 1..MaxWork, breakDurationSeconds : 1..MaxBreak]

\* ----------------------------------------------------------------- storage

EmptyStorage ==
  [work |-> [seconds |-> <<>>, meta |-> <<>>],
   break |-> [seconds |-> <<>>, meta |-> <<>>],
   state |-> <<>>]

readPersistedSeconds(st, k) ==
  IF st[k].seconds = <<>> THEN <<>> ELSE <<toPositiveInteger(st[k].seconds[1])>>

readPersistedMeta(st, k) == st[k].meta

\* a timestamp that JavaScript treats as true: any but null (no timestamp of
\* the wall clock is the number 0)
Truthy(opt) == opt # <<>>

\* ------------------------------------------------------------ the events

NoEvents ==
  [notified |-> 0,
   fired |-> [k \in Timers |-> 0],
   firedAt |-> {},
   rehydrated |-> <<>>,
   thrown |-> "none"]

\* the collaborators at their best: no storage call and no notification throws
NoFaults == [storageFails |-> FALSE, notificationThrows |-> FALSE]

Envs == [storageFails : BOOLEAN, notificationThrows : BOOLEAN]

\* an exception is propagating through the task
Thrown(s) == s.thrown # "none"

throw(s, cause) == [s EXCEPT !.thrown = cause, !.ev.thrown = cause]

\* an exception that leaves a listener, a timer callback or a handler is
\* reported by the host, and the task goes on with what comes next
reported(s) == [s EXCEPT !.thrown = "none"]

\* what a read of localStorage finds: a throwing getItem is caught and reads
\* as null
Readable(e, st) == IF e.storageFails THEN EmptyStorage ELSE st

setPhase(s, p) == IF Thrown(s) THEN s ELSE [s EXCEPT !.phase = p]

setBreakDue(s, b) == IF Thrown(s) THEN s ELSE [s EXCEPT !.breakDue = b]

NoRuns == [k \in Timers |-> [state |-> "none", calls |-> 0]]

\* ---------------------------------------------------- countdown primitive

persistState(s, k, nextRemaining, nextIsRunning) ==
  IF s.env.storageFails THEN s
  ELSE [s EXCEPT !.storage[k] =
          [seconds |-> <<nextRemaining>>,
           meta |-> <<[targetTimestamp |-> s.timers[k].targetTimestamp,
                       isRunning |-> nextIsRunning]>>]]

\* history of a completion: the callback of timer k is being invoked
noteFired(s, k) ==
  [s EXCEPT !.ev.fired[k] = @ + 1,
            !.ev.firedAt = @ \cup {[timer |-> k,
                                    remainingSeconds |-> s.timers[k].remainingSeconds,
                                    isRunning |-> s.timers[k].isRunning]},
            !.runs[k].calls = Min(@ + 1, 2)]

\* the end of tick on completion without its auto-restart branch
scheduleRestartNever(s, k) == s

\* the end of tick on completion: under autoRestart, a zero-delay timeout
scheduleRestart(s, k) ==
  IF ~Thrown(s) /\ s.timers[k].autoRestart
  THEN [s EXCEPT !.timers[k].restartTimeout = TRUE]
  ELSE s

RECURSIVE tick(_, _, _, _)
RECURSIVE start(_, _, _, _, _)
RECURSIVE onComplete(_, _, _, _)

reset(s, k, durationSeconds) ==
  IF Thrown(s) THEN s
  ELSE
    LET duration == toPositiveInteger(durationSeconds)
        s1 == [s EXCEPT !.timers[k].duration = duration,
                        !.timers[k].interval = FALSE,
                        !.timers[k].restartTimeout = FALSE,
                        !.timers[k].targetTimestamp = <<>>,
                        !.timers[k].isRunning = FALSE,
                        !.timers[k].remainingSeconds = duration,
                        !.runs[k].state = IF @ = "active" THEN "cancelled" ELSE @]
    IN persistState(s1, k, duration, FALSE)

\* sendNotification has no try / catch: what its Notification call throws
\* leaves notifyBreak
notifyBreak(s) ==
  IF s.env.notificationThrows THEN throw(s, "notification")
  ELSE [s EXCEPT !.ev.notified = @ + 1]

\* workOnComplete without its last statement, startWorkTimer(...)
workOnCompleteNoRestart(s, t, ex) ==
  notifyBreak([s EXCEPT !.breakDue = TRUE])

workOnComplete(s, t, ex) ==
  LET s1 == [s EXCEPT !.breakDue = TRUE]
      s2 == notifyBreak(s1)
  IN start(s2, "work", ex.workDurationSeconds, t, ex)

\* breakOnComplete without startWorkTimer(...)
breakOnCompleteNoStart(s, t, ex) ==
  LET s1 == [s EXCEPT !.phase = "work", !.breakDue = FALSE]
      s2 == reset(s1, "break", ex.breakDurationSeconds)
  IN reset(s2, "work", ex.workDurationSeconds)

breakOnComplete(s, t, ex) ==
  LET s1 == [s EXCEPT !.phase = "work", !.breakDue = FALSE]
      s2 == reset(s1, "break", ex.breakDurationSeconds)
      s3 == reset(s2, "work", ex.workDurationSeconds)
  IN start(s3, "work", ex.workDurationSeconds, t, ex)

onComplete(s, k, t, ex) ==
  LET cb == s.timers[k].onComplete
  IN IF cb = "none" THEN s
     ELSE LET s1 == noteFired(s, k)
          IN CASE cb = "work" -> workOnComplete(s1, t, ex)
               [] cb = "break" -> breakOnComplete(s1, t, ex)
               [] OTHER -> s1

\* tick that leaves targetTimestampRef set when the countdown completes
tickKeepsTarget(s, k, t, ex) ==
  IF s.timers[k].targetTimestamp = <<>> THEN s
  ELSE
    LET diff == s.timers[k].targetTimestamp[1] - t
        nextValue == RemainingFrom(diff)
        s1 == [s EXCEPT !.timers[k].remainingSeconds = nextValue]
    IN IF diff <= 0
       THEN LET s2 == [s1 EXCEPT !.timers[k].interval = FALSE,
                                 !.timers[k].isRunning = FALSE,
                                 !.runs[k].state = "completed"]
                s3 == persistState(s2, k, 0, FALSE)
            IN scheduleRestart(onComplete(s3, k, t, ex), k)
       ELSE s1

\* tick that invokes the completion callback before it stops the countdown
tickCallsBackFirst(s, k, t, ex) ==
  IF s.timers[k].targetTimestamp = <<>> THEN s
  ELSE
    LET diff == s.timers[k].targetTimestamp[1] - t
        nextValue == RemainingFrom(diff)
        s1 == [s EXCEPT !.timers[k].remainingSeconds = nextValue]
    IN IF diff <= 0
       THEN LET s2 == onComplete(s1, k, t, ex)
                s3 == [s2 EXCEPT !.timers[k].interval = FALSE,
                                 !.timers[k].targetTimestamp = <<>>,
                                 !.timers[k].isRunning = FALSE,
                                 !.runs[k].state = "completed"]
            IN scheduleRestart(persistState(s3, k, 0, FALSE), k)
       ELSE s1

tick(s, k, t, ex) ==
  IF Thrown(s) \/ s.timers[k].targetTimestamp = <<>> THEN s
  ELSE
    LET diff == s.timers[k].targetTimestamp[1] - t
        nextValue == RemainingFrom(diff)
        s1 == [s EXCEPT !.timers[k].remainingSeconds = nextValue]
    IN IF diff <= 0
       THEN LET s2 == [s1 EXCEPT !.timers[k].interval = FALSE,
                                 !.timers[k].targetTimestamp = <<>>,
                                 !.timers[k].isRunning = FALSE,
                                 !.runs[k].state = "completed"]
                s3 == persistState(s2, k, 0, FALSE)
            IN scheduleRestart(onComplete(s3, k, t, ex), k)
       ELSE s1

\* start returns to its caller
return(s) == [s EXCEPT !.depth = @ - 1]

\* a call of start for which the stack has no room throws a RangeError
start(s, k, durationSeconds, t, ex) ==
  IF Thrown(s) THEN s
  ELSE IF s.depth >= StackLimit THEN throw(s, "stack")
  ELSE
    LET duration == toPositiveInteger(durationSeconds)
        target == t + duration * MsPerSecond
        s1 == [s EXCEPT !.depth = @ + 1,
                        !.timers[k].duration = duration,
                        !.timers[k].interval = FALSE,
                        !.timers[k].restartTimeout = FALSE,
                        !.timers[k].targetTimestamp = <<target>>,
                        !.timers[k].remainingSeconds =
                            Min(duration, RemainingFrom(target - t)),
                        !.timers[k].isRunning = TRUE,
                        !.runs[k] = [state |-> "active", calls |-> 0]]
        s2 == persistState(s1, k, duration, TRUE)
        s3 == [s2 EXCEPT !.timers[k].interval = TRUE]
    IN return(tick(s3, k, t, ex))

\* the end of stop without targetTimestampRef.current = null
cancelKeepsTarget(s, k) ==
  [s EXCEPT !.timers[k].interval = FALSE,
            !.timers[k].restartTimeout = FALSE,
            !.timers[k].isRunning = FALSE,
            !.runs[k].state = IF @ = "active" THEN "cancelled" ELSE @,
            !.deferred[k] = <<s.timers[k].remainingSeconds>>]

\* the end of stop without clearRestartTimeout()
cancelKeepsRestart(s, k) ==
  [s EXCEPT !.timers[k].interval = FALSE,
            !.timers[k].targetTimestamp = <<>>,
            !.timers[k].isRunning = FALSE,
            !.runs[k].state = IF @ = "active" THEN "cancelled" ELSE @,
            !.deferred[k] = <<s.timers[k].remainingSeconds>>]

\* stop ends with setRemainingSeconds(previous => { persistState(previous, false) ... }):
\* the updater is queued, and runs when the component renders
cancel(s, k) ==
  IF Thrown(s) THEN s
  ELSE [s EXCEPT !.timers[k].interval = FALSE,
                 !.timers[k].restartTimeout = FALSE,
                 !.timers[k].targetTimestamp = <<>>,
                 !.timers[k].isRunning = FALSE,
                 !.runs[k].state = IF @ = "active" THEN "cancelled" ELSE @,
                 !.deferred[k] = <<s.timers[k].remainingSeconds>>]

stop(s, k, t, ex) == cancel(tick(s, k, t, ex), k)

\* computeInitialRemaining that takes the stored seconds and not the target
computeInitialRemainingFromSeconds(meta, seconds, duration, t) ==
  IF seconds # <<>> THEN Min(seconds[1], duration) ELSE duration

computeInitialRemaining(meta, seconds, duration, t) ==
  IF meta # <<>> /\ Truthy(meta[1].targetTimestamp)
  THEN Min(RemainingFrom(meta[1].targetTimestamp[1] - t), duration)
  ELSE IF seconds # <<>> THEN Min(seconds[1], duration) ELSE duration

\* the initial isRunning without its test of a target that has passed
initialIsRunningAsStored(meta, t) ==
  IF meta = <<>> THEN FALSE ELSE meta[1].isRunning

initialIsRunning(meta, t) ==
  IF meta = <<>> THEN FALSE
  ELSE IF Truthy(meta[1].targetTimestamp) /\ meta[1].targetTimestamp[1] <= t THEN FALSE
  ELSE meta[1].isRunning

\* the state and refs of a countdown right after its first render
useCountdown(st, k, initialDurationSeconds, cb, auto, t) ==
  LET duration == toPositiveInteger(initialDurationSeconds)
      seconds == readPersistedSeconds(st, k)
      meta == readPersistedMeta(st, k)
  IN [remainingSeconds |-> computeInitialRemaining(meta, seconds, duration, t),
      isRunning |-> initialIsRunning(meta, t),
      targetTimestamp |-> IF meta = <<>> THEN <<>> ELSE meta[1].targetTimestamp,
      interval |-> FALSE,
      restartTimeout |-> FALSE,
      duration |-> duration,
      onComplete |-> cb,
      autoRestart |-> auto]

\* effect on [initialDurationSeconds, storageKey]
durationEffect(s, k, initialDurationSeconds) ==
  LET normalized == toPositiveInteger(initialDurationSeconds)
      nextRemaining == readPersistedSeconds(Readable(s.env, s.storage), k)
      s1 == [s EXCEPT !.timers[k].duration = normalized]
  IN IF Truthy(s1.timers[k].targetTimestamp) THEN s1
     ELSE [s1 EXCEPT !.timers[k].remainingSeconds =
             IF nextRemaining # <<>> THEN Min(nextRemaining[1], normalized)
             ELSE normalized]

\* effect on [isRunning, storageKey, remainingSeconds]: writes what was rendered
persistEffect(s, k, rendered) ==
  IF s.env.storageFails THEN s
  ELSE [s EXCEPT !.storage[k] =
          [seconds |-> <<rendered.remainingSeconds>>,
           meta |-> <<[targetTimestamp |-> s.timers[k].targetTimestamp,
                       isRunning |-> rendered.isRunning]>>]]

\* the queued updater of stop, run while rendering
runDeferred(s, k) ==
  IF s.deferred[k] = <<>> THEN s
  ELSE [persistState(s, k, s.deferred[k][1], FALSE) EXCEPT !.deferred[k] = <<>>]

\* a render of one countdown after a task, and its persist effect when
\* isRunning or remainingSeconds differ from what was rendered before
persistChanged(s, k, before) ==
  IF s.timers[k].isRunning # before[k].isRunning
     \/ s.timers[k].remainingSeconds # before[k].remainingSeconds
  THEN persistEffect(s, k, s.timers[k])
  ELSE s

renderCountdown(s, k, before) == persistChanged(runDeferred(s, k), k, before)

\* ------------------------------------------------------ session controller

\* what the component rendered: the state the closures of a render capture
Rendered(s) ==
  [phase |-> s.phase,
   breakDue |-> s.breakDue,
   workRunning |-> s.timers["work"].isRunning,
   breakRunning |-> s.timers["break"].isRunning,
   workSeconds |-> s.timers["work"].remainingSeconds,
   breakSeconds |-> s.timers["break"].remainingSeconds]

\* effect on the exercise's durations: stop both countdowns, back to idle
configEffect(s, t, ex) ==
  LET s1 == [s EXCEPT !.hydrated = FALSE]
      s2 == stop(s1, "work", t, ex)
      s3 == stop(s2, "break", t, ex)
  IN setPhase(setBreakDue(s3, FALSE), "idle")

\* a field of a parsed record that is not undefined
Has(parsedState, field) == field \in DOMAIN parsedState

\* JSON.parse returns an object rather than throwing
Parses(rawState) == ~Has(rawState, "unparseable")

readCountdownSnapshot(st, k, fallbackSeconds, t) ==
  LET persistedSeconds == readPersistedSeconds(st, k)
      persistedMeta == readPersistedMeta(st, k)
      normalizedFallback == toPositiveInteger(fallbackSeconds)
      baseline == IF persistedSeconds # <<>>
                  THEN Min(persistedSeconds[1], normalizedFallback)
                  ELSE normalizedFallback
      targetTimestamp == IF persistedMeta = <<>> THEN <<>>
                         ELSE persistedMeta[1].targetTimestamp
  IN [remainingSeconds |-> IF targetTimestamp # <<>>
                           THEN Min(RemainingFrom(targetTimestamp[1] - t),
                                    normalizedFallback)
                           ELSE baseline,
      targetTimestamp |-> targetTimestamp,
      isRunning |-> IF targetTimestamp # <<>> /\ targetTimestamp[1] > t
                    THEN persistedMeta[1].isRunning ELSE FALSE]

readSeconds(s, k, fallback, t) ==
  readCountdownSnapshot(s.storage, k, fallback, t).remainingSeconds

\* parsedState.workSeconds ?? readSeconds(workStorageKey, ...), and the same
\* for the break
targetSeconds(s, parsedState, field, k, fallback, t) ==
  IF Has(parsedState, field) THEN parsedState[field]
  ELSE readSeconds(s, k, fallback, t)

\* history: the raw composite record that the hydration effect has read
noteRehydrated(s) == [s EXCEPT !.ev.rehydrated = s.storage.state]

\* resumeWork without its branch for a countdown that has elapsed
resumeWorkIfLeft(s, seconds, t, ex) ==
  IF seconds > 0 THEN start(s, "work", seconds, t, ex) ELSE s

resumeWork(s, seconds, t, ex) ==
  IF seconds > 0 THEN start(s, "work", seconds, t, ex)
  ELSE setBreakDue(s, TRUE)

resumeBreak(s, seconds, t, ex) ==
  IF seconds > 0 THEN start(s, "break", seconds, t, ex)
  ELSE start(setBreakDue(setPhase(s, "work"), FALSE),
             "work", ex.workDurationSeconds, t, ex)

\* the body of the try block, for a record that JSON.parse accepts
hydrate(s, parsedState, t, ex) ==
  LET s1 == IF Has(parsedState, "phase") THEN setPhase(s, parsedState.phase) ELSE s
      s2 == IF Has(parsedState, "breakDue")
            THEN setBreakDue(s1, parsedState.breakDue) ELSE s1
      shouldResumeWork ==
        /\ Has(parsedState, "phase") /\ parsedState.phase = "work"
        /\ Has(parsedState, "workRunning") /\ parsedState.workRunning
      shouldResumeBreak ==
        /\ Has(parsedState, "phase") /\ parsedState.phase = "break"
        /\ Has(parsedState, "breakRunning") /\ parsedState.breakRunning
  IN IF shouldResumeWork
     THEN resumeWork(s2, targetSeconds(s2, parsedState, "workSeconds", "work",
                                       ex.workDurationSeconds, t), t, ex)
     ELSE IF shouldResumeBreak
     THEN resumeBreak(s2, targetSeconds(s2, parsedState, "breakSeconds", "break",
                                        ex.breakDurationSeconds, t), t, ex)
     ELSE s2

\* effect that reads the composite record back
hydrationEffect(s, t, ex) ==
  IF Thrown(s) THEN s
  ELSE IF s.env.storageFails THEN throw(s, "storage")
  ELSE IF s.storage.state = <<>> THEN [s EXCEPT !.hydrated = TRUE]
  ELSE IF ~Parses(s.storage.state[1])
  THEN [noteRehydrated(s) EXCEPT !.hydrated = TRUE]
  ELSE [hydrate(noteRehydrated(s), s.storage.state[1], t, ex)
          EXCEPT !.hydrated = TRUE]

\* effect that writes the composite record: the values of the render it belongs to
persistExercise(s, rendered) ==
  IF s.hydrated /\ ~s.env.storageFails
  THEN [s EXCEPT !.storage.state = <<rendered>>]
  ELSE s

\* the render that follows a task, with the effects whose inputs changed
persistExerciseChanged(s, before) ==
  IF Rendered(s) # Rendered(before) THEN persistExercise(s, Rendered(s)) ELSE s

render(s, before) ==
  persistExerciseChanged(
    renderCountdown(renderCountdown(s, "work", before.timers), "break", before.timers),
    before)

\* startExercise that always starts the work countdown from the full duration
startExerciseFromFull(s, cl, t, ex) ==
  LET s1 == stop(s, "break", t, ex)
      s2 == reset(s1, "break", cl.exercise.breakDurationSeconds)
      s3 == setBreakDue(setPhase(s2, "work"), FALSE)
  IN start(s3, "work", cl.exercise.workDurationSeconds, t, ex)

\* the body of startExercise after its awaits; cl is the closure of the render
\* in which the call was made
startExercise(s, cl, t, ex) ==
  LET s1 == stop(s, "break", t, ex)
      s2 == reset(s1, "break", cl.exercise.breakDurationSeconds)
      s3 == setBreakDue(setPhase(s2, "work"), FALSE)
      resumeTarget ==
        IF cl.workRemainingSeconds > 0
           /\ cl.workRemainingSeconds < cl.exercise.workDurationSeconds
        THEN cl.workRemainingSeconds
        ELSE cl.exercise.workDurationSeconds
  IN start(s3, "work", resumeTarget, t, ex)

\* startBreak without its early return in phase idle
startBreakFromAnyPhase(s, t, ex) ==
  LET s1 == [s EXCEPT !.phase = "break", !.breakDue = FALSE]
      s2 == stop(s1, "work", t, ex)
      s3 == reset(s2, "work", ex.workDurationSeconds)
      s4 == reset(s3, "break", ex.breakDurationSeconds)
  IN start(s4, "break", ex.breakDurationSeconds, t, ex)

startBreak(s, t, ex) ==
  IF s.phase = "idle" THEN s
  ELSE
    LET s1 == [s EXCEPT !.phase = "break", !.breakDue = FALSE]
        s2 == stop(s1, "work", t, ex)
        s3 == reset(s2, "work", ex.workDurationSeconds)
        s4 == reset(s3, "break", ex.breakDurationSeconds)
    IN start(s4, "break", ex.breakDurationSeconds, t, ex)

\* pause without stopWorkTimer()
pauseKeepsRunning(s, t, ex) ==
  IF s.phase # "work" THEN s ELSE setPhase(s, "idle")

pause(s, t, ex) ==
  IF s.phase # "work" THEN s
  ELSE setPhase(stop(s, "work", t, ex), "idle")

\* resetExercise without resetWorkTimer(...) and resetBreakTimer(...)
resetExerciseStopsOnly(s, t, ex) ==
  LET s1 == stop(s, "work", t, ex)
      s2 == stop(s1, "break", t, ex)
  IN setPhase(setBreakDue(s2, FALSE), "idle")

resetExercise(s, t, ex) ==
  LET s1 == stop(s, "work", t, ex)
      s2 == stop(s1, "break", t, ex)
      s3 == reset(s2, "work", ex.workDurationSeconds)
      s4 == reset(s3, "break", ex.breakDurationSeconds)
  IN setPhase(setBreakDue(s4, FALSE), "idle")

\* window focus, or the document becoming visible: each countdown's listener
\* evaluates, the work countdown's first; what one listener throws does not
\* keep the next from running
evaluateAll(s, t, ex) == tick(reported(tick(s, "work", t, ex)), "break", t, ex)

\* the first render of the controller over the stored state st
firstRender(st, ex, t, e) ==
  [phase |-> "idle", breakDue |-> FALSE, hydrated |-> FALSE,
   timers |-> [work |-> useCountdown(Readable(e, st), "work", ex.workDurationSeconds,
                                     "none", FALSE, t),
               break |-> useCountdown(Readable(e, st), "break", ex.breakDurationSeconds,
                                      "none", FALSE, t)],
   storage |-> st, ev |-> NoEvents, deferred |-> [k \in Timers |-> <<>>],
   runs |-> NoRuns, depth |-> 0, thrown |-> "none", env |-> e]

\* the effects of the first render, in the order the hooks declare them, and
\* the render those effects cause
mountEffects(first, ex, t) ==
  LET w1 == durationEffect(first, "work", ex.workDurationSeconds)
      w2 == persistEffect(w1, "work", first.timers["work"])
      b1 == durationEffect(w2, "break", ex.breakDurationSeconds)
      b2 == persistEffect(b1, "break", first.timers["break"])
      c1 == [b2 EXCEPT !.timers["work"].onComplete = "work",
                       !.timers["break"].onComplete = "break"]
      c2 == configEffect(c1, t, ex)
      c3 == hydrationEffect(c2, t, ex)
      c4 == persistExercise(c3, Rendered(first))
  IN render(c4, first)

\* the first render of the controller over the stored state st and its effects
mountController(st, ex, t, e) == mountEffects(firstRender(st, ex, t, e), ex, t)

\* the exercise prop changes from ex to next: the effects on the durations run
\* in the order the hooks declare them, then the component renders again
changeExercise(s, ex, next, t) ==
  LET w1 == IF next.workDurationSeconds # ex.workDurationSeconds
            THEN durationEffect(s, "work", next.workDurationSeconds) ELSE s
      b1 == IF next.breakDurationSeconds # ex.breakDurationSeconds
            THEN durationEffect(w1, "break", next.breakDurationSeconds) ELSE w1
      c2 == configEffect(b1, t, next)
  IN hydrationEffect(c2, t, next)

\* ---------------------------------------------------------------- actions

World ==
  [phase |-> phase, breakDue |-> breakDue, hydrated |-> hydrated,
   timers |-> timers, storage |-> storage, ev |-> NoEvents,
   deferred |-> [k \in Timers |-> <<>>], runs |-> runs, depth |-> 0,
   thrown |-> "none", env |-> env]

\* history: the work completions that evaluations have observed in phase work
\* since the last operation of the controller, counted up to 2
Streak(r, op) ==
  IF op # "evaluate" THEN 0
  ELSE IF phase = "work" /\ r.ev.fired["work"] > 0 THEN Min(last.streak + 1, 2)
  ELSE last.streak

\* history: the phase that was rendered when the task began, for a task in
\* which a completion callback was invoked
FiredIn(r) ==
  IF r.ev.fired["work"] + r.ev.fired["break"] > 0 THEN phase ELSE "none"

\* history: the phase in which an operation of the user was invoked
From(op) ==
  IF op \in {"startExercise", "startBreak", "pause"} THEN phase ELSE "none"

Install(r, op) ==
  /\ phase' = r.phase
  /\ breakDue' = r.breakDue
  /\ hydrated' = r.hydrated
  /\ timers' = r.timers
  /\ storage' = r.storage
  /\ last' = [op |-> op, notified |-> r.ev.notified, fired |-> r.ev.fired,
              firedAt |-> r.ev.firedAt, firedIn |-> FiredIn(r), from |-> From(op),
              streak |-> Streak(r, op), rehydrated |-> r.ev.rehydrated,
              stoppedAgain |-> FALSE, snapshot |-> <<>>, thrown |-> r.ev.thrown]
  /\ UNCHANGED <<runs, env>>

\* the end of a task: what a handler threw has been reported, the updates it
\* queued are applied and the component renders
Commit(s, op) == Install(render(reported(s), World), op)

Blank ==
  [remainingSeconds |-> 0, isRunning |-> FALSE, targetTimestamp |-> <<>>,
   interval |-> FALSE, restartTimeout |-> FALSE, duration |-> 0,
   onComplete |-> "none", autoRestart |-> FALSE]

NoLast == [op |-> "init", notified |-> 0, fired |-> [k \in Timers |-> 0],
           firedAt |-> {}, firedIn |-> "none", from |-> "none", streak |-> 0,
           rehydrated |-> <<>>, stoppedAgain |-> FALSE, snapshot |-> <<>>,
           thrown |-> "none"]

\* an effect threw and nothing catches it: the component tree is unmounted;
\* what the effects wrote to storage before stays
Crash(r, op) ==
  /\ mounted' = FALSE
  /\ phase' = "idle"
  /\ breakDue' = FALSE
  /\ hydrated' = FALSE
  /\ timers' = [k \in Timers |-> Blank]
  /\ storage' = r.storage
  /\ pending' = <<>>
  /\ last' = [NoLast EXCEPT !.op = op, !.notified = r.ev.notified,
                            !.fired = r.ev.fired, !.firedAt = r.ev.firedAt,
                            !.thrown = r.ev.thrown]
  /\ UNCHANGED <<runs, env>>

\* the end of a task that ran effects
CommitEffects(r, op) ==
  IF r.ev.thrown # "none" THEN Crash(r, op)
  ELSE Commit(r, op) /\ UNCHANGED <<mounted, pending>>

MountFrom(r) ==
  IF r.ev.thrown # "none" THEN Crash(r, "mount")
  ELSE mounted' = TRUE /\ Install(r, "mount") /\ UNCHANGED pending

InitFrom(r) ==
  /\ phase = r.phase
  /\ breakDue = r.breakDue
  /\ hydrated = r.hydrated
  /\ timers = r.timers
  /\ storage = r.storage

Init ==
  /\ env = NoFaults
  /\ mounted = TRUE
  /\ exercise \in Exercises
  /\ pending = <<>>
  /\ InitFrom(mountController(EmptyStorage, exercise, Clock, NoFaults))
  /\ last = NoLast
  /\ runs = NoRuns

\* a timestamp as it reads once TimeStep milliseconds have passed
Later(timestamp) ==
  IF timestamp = <<>> THEN <<>> ELSE <<Max(Clock, timestamp[1] - TimeStep)>>

\* time passes and nothing runs: no timer callback is guaranteed to
Advance ==
  /\ timers' = [k \in Timers |->
                  [timers[k] EXCEPT !.targetTimestamp = Later(@)]]
  /\ storage' = [storage EXCEPT
                   !["work"].meta = IF @ = <<>> THEN @
                                    ELSE <<[@[1] EXCEPT !.targetTimestamp = Later(@)]>>,
                   !["break"].meta = IF @ = <<>> THEN @
                                     ELSE <<[@[1] EXCEPT !.targetTimestamp = Later(@)]>>]
  /\ last' = [NoLast EXCEPT !.op = "advance", !.streak = last.streak]
  /\ UNCHANGED <<mounted, exercise, phase, breakDue, hydrated, pending, runs, env>>

IntervalTick(k) ==
  /\ mounted
  /\ timers[k].interval
  /\ Commit(tick(World, k, Clock, exercise), "evaluate")
  /\ UNCHANGED <<mounted, exercise, pending>>

Focus ==
  /\ mounted
  /\ Commit(evaluateAll(World, Clock, exercise), "evaluate")
  /\ UNCHANGED <<mounted, exercise, pending>>

VisibilityChange ==
  /\ mounted
  /\ Commit(evaluateAll(World, Clock, exercise), "evaluate")
  /\ UNCHANGED <<mounted, exercise, pending>>

StartExerciseCall ==
  /\ mounted
  /\ pending = <<>>
  /\ pending' = <<[exercise |-> exercise,
                   workRemainingSeconds |-> timers["work"].remainingSeconds]>>
  /\ last' = [NoLast EXCEPT !.op = "startExerciseCall"]
  /\ UNCHANGED <<mounted, exercise, phase, breakDue, hydrated, timers, storage, runs, env>>

StartExerciseResume ==
  /\ mounted
  /\ pending # <<>>
  /\ Commit(startExercise(World, pending[1], Clock, exercise), "startExercise")
  /\ pending' = <<>>
  /\ UNCHANGED <<mounted, exercise>>

StartBreak ==
  /\ mounted
  /\ Commit(startBreak(World, Clock, exercise), "startBreak")
  /\ UNCHANGED <<mounted, exercise, pending>>

Pause ==
  /\ mounted
  /\ Commit(pause(World, Clock, exercise), "pause")
  /\ UNCHANGED <<mounted, exercise, pending>>

Reset ==
  /\ mounted
  /\ Commit(resetExercise(World, Clock, exercise), "reset")
  /\ UNCHANGED <<mounted, exercise, pending>>

ChangeExercise ==
  /\ mounted
  /\ \E next \in Exercises \ {exercise} :
       /\ exercise' = next
       /\ CommitEffects(changeExercise(World, exercise, next, Clock), "changeExercise")

\* the page is closed: what is in memory is gone, what is stored stays
Unload ==
  /\ mounted
  /\ mounted' = FALSE
  /\ phase' = "idle"
  /\ breakDue' = FALSE
  /\ hydrated' = FALSE
  /\ timers' = [k \in Timers |-> Blank]
  /\ pending' = <<>>
  /\ last' = [NoLast EXCEPT !.op = "unload"]
  /\ UNCHANGED <<exercise, storage, runs, env>>

\* the page is opened again
Mount ==
  /\ ~mounted
  /\ MountFrom(mountController(storage, exercise, Clock, env))
  /\ UNCHANGED exercise

Next ==
  \/ Advance
  \/ \E k \in Timers : IntervalTick(k)
  \/ Focus
  \/ VisibilityChange
  \/ StartExerciseCall
  \/ StartExerciseResume
  \/ StartBreak
  \/ Pause
  \/ Reset
  \/ ChangeExercise
  \/ Unload
  \/ Mount

Spec == Init /\ [][Next]_vars

\* ------------------------------------------- durations normalized to zero
\* The same controller, given an exercise whose work duration may be 0, the
\* value that a non-finite or negative duration is normalized to.

NormalizedExercises ==
  [workDurationSeconds : 0..MaxWork, breakDurationSeconds : 1..MaxBreak]

InitNormalized ==
  /\ env = NoFaults
  /\ mounted = TRUE
  /\ exercise \in NormalizedExercises
  /\ pending = <<>>
  /\ InitFrom(mountController(EmptyStorage, exercise, Clock, NoFaults))
  /\ last = NoLast
  /\ runs = NoRuns

SpecNormalized == InitNormalized /\ [][Next]_vars

\* ---------------------------------------------- collaborators that fail
\* The same controller, opened in an environment whose storage calls or whose
\* notifications may throw, and whose permission request may reject.

InitFaults ==
  /\ env \in Envs
  /\ mounted = FALSE
  /\ exercise \in Exercises
  /\ phase = "idle"
  /\ breakDue = FALSE
  /\ hydrated = FALSE
  /\ timers = [k \in Timers |-> Blank]
  /\ storage = EmptyStorage
  /\ pending = <<>>
  /\ last = NoLast
  /\ runs = NoRuns

\* an awaited call of startExercise rejects: the rest of its body never runs
StartExerciseRejected ==
  /\ mounted
  /\ pending # <<>>
  /\ pending' = <<>>
  /\ last' = [NoLast EXCEPT !.op = "startExerciseRejected"]
  /\ UNCHANGED <<mounted, exercise, phase, breakDue, hydrated, timers, storage, runs, env>>

NextFaults ==
  \/ Next
  \/ StartExerciseRejected

SpecFaults == InitFaults /\ [][NextFaults]_vars

\* ------------------------------------- a page opened over stored state
\* The controller opened over a composite record that it did not write
\* itself: one left by another version, edited by hand or cut short. The
\* countdowns' own keys are absent.

Phases == {"idle", "work", "break"}

\* what the phase field of a stored record may hold
StoredPhases == Phases \cup {"unknown"}

CompleteRecords ==
  [phase : StoredPhases, breakDue : BOOLEAN,
   workRunning : BOOLEAN, breakRunning : BOOLEAN,
   workSeconds : (-1)..(MaxWork + 1), breakSeconds : (-1)..(MaxBreak + 1)]

PartialRecords ==
  {[phase |-> p] : p \in StoredPhases}
    \cup {[breakDue |-> TRUE]}
    \cup {[phase |-> "work", workRunning |-> TRUE],
          [phase |-> "break", breakRunning |-> TRUE]}

\* text that JSON.parse rejects
Unparseable == [unparseable |-> TRUE]

StoredRecords == CompleteRecords \cup PartialRecords \cup {Unparseable}

InitStored ==
  /\ env = NoFaults
  /\ mounted = FALSE
  /\ exercise \in Exercises
  /\ phase = "idle"
  /\ breakDue = FALSE
  /\ hydrated = FALSE
  /\ timers = [k \in Timers |-> Blank]
  /\ \E rawState \in StoredRecords :
       storage = [EmptyStorage EXCEPT !.state = <<rawState>>]
  /\ pending = <<>>
  /\ last = NoLast
  /\ runs = NoRuns

NextStored ==
  \/ Mount
  \/ Unload
  \/ Advance
  \/ \E k \in Timers : IntervalTick(k)
  \/ Focus

SpecStored == InitStored /\ [][NextStored]_vars

\* ------------------------------------------- a countdown used on its own
\* One countdown (the one stored under "work"), with a completion callback
\* that does nothing but return, and with or without the auto-restart option.

\* history in stoppedAgain: stop() has been called right after stop()
InstallRun(r, op) ==
  /\ timers' = r.timers
  /\ storage' = r.storage
  /\ runs' = r.runs
  /\ last' = [op |-> op, notified |-> r.ev.notified, fired |-> r.ev.fired,
              firedAt |-> r.ev.firedAt, firedIn |-> FiredIn(r), from |-> "none",
              streak |-> 0, rehydrated |-> <<>>,
              stoppedAgain |-> (op = "stop" /\ last.op = "stop"),
              snapshot |-> <<>>, thrown |-> r.ev.thrown]
  /\ UNCHANGED <<mounted, exercise, phase, breakDue, hydrated, pending, env>>

InstallCountdown(s, op) == InstallRun(renderCountdown(s, "work", timers), op)

\* the first render of a countdown over empty storage, its effects, and the
\* render they cause
mountCountdownEffects(first, initialDurationSeconds) ==
  LET e1 == durationEffect(first, "work", initialDurationSeconds)
      e2 == persistEffect(e1, "work", first.timers["work"])
  IN renderCountdown(e2, "work", first.timers)

\* the first render of a countdown over the stored state st, its effects, and
\* the render they cause
mountCountdownOver(st, initialDurationSeconds, auto, t) ==
  mountCountdownEffects(
    [phase |-> "idle", breakDue |-> FALSE, hydrated |-> FALSE,
     timers |-> [work |-> useCountdown(st, "work", initialDurationSeconds,
                                       "count", auto, t),
                 break |-> Blank],
     storage |-> st, ev |-> NoEvents,
     deferred |-> [k \in Timers |-> <<>>], runs |-> NoRuns, depth |-> 0,
     thrown |-> "none", env |-> NoFaults],
    initialDurationSeconds)

mountCountdown(initialDurationSeconds, auto, t) ==
  mountCountdownOver(EmptyStorage, initialDurationSeconds, auto, t)

InitRun(r) == timers = r.timers /\ storage = r.storage

InitCountdown ==
  /\ env = NoFaults
  /\ mounted = TRUE
  /\ exercise = [workDurationSeconds |-> 1, breakDurationSeconds |-> 1]
  /\ phase = "idle"
  /\ breakDue = FALSE
  /\ hydrated = FALSE
  /\ pending = <<>>
  /\ last = NoLast
  /\ runs = NoRuns
  /\ \E initialDurationSeconds \in 0..MaxWork, auto \in BOOLEAN :
       InitRun(mountCountdown(initialDurationSeconds, auto, Clock))

CountdownStart ==
  /\ mounted
  /\ \E d \in 0..MaxWork :
       InstallCountdown(start(World, "work", d, Clock, exercise), "start")

\* start() without an argument: the last configured duration
CountdownStartAgain ==
  /\ mounted
  /\ InstallCountdown(start(World, "work", timers["work"].duration, Clock, exercise), "start")

CountdownStop ==
  /\ mounted
  /\ InstallCountdown(stop(World, "work", Clock, exercise), "stop")

CountdownReset ==
  /\ mounted
  /\ \E d \in 0..MaxWork :
       InstallCountdown(reset(World, "work", d), "reset")

CountdownIntervalTick ==
  /\ timers["work"].interval
  /\ InstallCountdown(tick(World, "work", Clock, exercise), "evaluate")

CountdownFocus ==
  /\ mounted
  /\ InstallCountdown(tick(World, "work", Clock, exercise), "evaluate")

CountdownVisibilityChange ==
  /\ mounted
  /\ InstallCountdown(tick(World, "work", Clock, exercise), "evaluate")

\* the zero-delay timeout that tick sets under auto-restart
CountdownRestart ==
  /\ timers["work"].restartTimeout
  /\ InstallCountdown(start(World, "work", timers["work"].duration, Clock, exercise),
                      "restart")

NextCountdown ==
  \/ Advance
  \/ CountdownStart
  \/ CountdownStartAgain
  \/ CountdownStop
  \/ CountdownReset
  \/ CountdownIntervalTick
  \/ CountdownFocus
  \/ CountdownVisibilityChange
  \/ CountdownRestart

SpecCountdown == InitCountdown /\ [][NextCountdown]_vars

\* --------------------------------- a countdown that the page reopens over
\* The same countdown, with the page closed and opened again: a new instance
\* is constructed over what the previous one stored, with any configured
\* duration and option.

InstallRestored(r) ==
  /\ timers' = r.timers
  /\ storage' = r.storage
  /\ runs' = r.runs
  /\ last' = [NoLast EXCEPT !.op = "mount"]
  /\ UNCHANGED <<exercise, phase, breakDue, hydrated, pending, env>>

CountdownMount ==
  /\ ~mounted
  /\ mounted' = TRUE
  /\ \E initialDurationSeconds \in 0..MaxWork, auto \in BOOLEAN :
       InstallRestored(mountCountdownOver(storage, initialDurationSeconds, auto, Clock))

NextResume ==
  \/ NextCountdown
  \/ Unload
  \/ CountdownMount

SpecResume == InitCountdown /\ [][NextResume]_vars

\* time passes, and the host runs the callback of an interval that exists
SpecResumeLive ==
  SpecResume /\ WF_vars(Advance) /\ WF_vars(CountdownIntervalTick)

\* ------------------------------------- the snapshot reader and a countdown
\* Over whatever is stored under a countdown's key, the snapshot is read with
\* a fallback duration and then a countdown is constructed on the same key
\* with that duration.

\* what the two items of a countdown's key may hold
StoredCountdowns ==
  [seconds : {<<>>} \cup {<<n>> : n \in 0..(MaxWork + 1)},
   meta : {<<>>} \cup
          {<<m>> : m \in [targetTimestamp :
                            {<<>>} \cup {<<Clock + n * TimeStep>> :
                                           n \in 0..(2 * MaxWork)},
                          isRunning : BOOLEAN]}]

InitSnapshot ==
  /\ env = NoFaults
  /\ mounted = FALSE
  /\ exercise = [workDurationSeconds |-> 1, breakDurationSeconds |-> 1]
  /\ phase = "idle"
  /\ breakDue = FALSE
  /\ hydrated = FALSE
  /\ timers = [k \in Timers |-> Blank]
  /\ \E stored \in StoredCountdowns :
       storage = [EmptyStorage EXCEPT !["work"] = stored]
  /\ pending = <<>>
  /\ last = NoLast
  /\ runs = NoRuns

\* history in snapshot: what readCountdownSnapshot returned for the key
InstallSnapshot(snapshot, r) ==
  /\ timers' = r.timers
  /\ storage' = r.storage
  /\ runs' = r.runs
  /\ last' = [NoLast EXCEPT !.op = "construct", !.snapshot = <<snapshot>>]
  /\ UNCHANGED <<exercise, phase, breakDue, hydrated, pending, env>>

SnapshotAndConstruct ==
  /\ ~mounted
  /\ mounted' = TRUE
  /\ \E fallbackSeconds \in 0..MaxWork :
       InstallSnapshot(readCountdownSnapshot(storage, "work", fallbackSeconds, Clock),
                       mountCountdownOver(storage, fallbackSeconds, FALSE, Clock))

NextSnapshot ==
  \/ SnapshotAndConstruct
  \/ Unload
  \/ Advance

SpecSnapshot == InitSnapshot /\ [][NextSnapshot]_vars

\* ------------------------------------------------------------- the claims

Work == timers["work"]

Break == timers["break"]

Abs(x) == IF x < 0 THEN -x ELSE x

\* C1: in every reachable state of the controller at most one of the work
\* countdown and the break countdown has isRunning = true.
C1_AtMostOneRunning == ~(Work.isRunning /\ Break.isRunning)

\* C2: in every reachable state of the controller, breakDue = true implies
\* that phase is not break.
C2_BreakDueNotInBreak == breakDue => phase # "break"

\* C3: a run of a countdown begun by start(d), d >= 0, invokes the completion
\* callback at most once, and exactly once when an evaluation has found its
\* target passed; no later evaluation of the same run invokes it again; an
\* evaluation never leaves a run active whose target has passed; and whenever
\* the callback is invoked remainingSeconds = 0 and isRunning = false.
C3_CallbackOncePerRun ==
  /\ runs["work"].calls <= 1
  /\ last.fired["work"] <= 1
  /\ runs["work"].state = "completed" => runs["work"].calls = 1
  /\ runs["work"].state \in {"active", "cancelled"} => runs["work"].calls = 0
  /\ (last.op = "evaluate" /\ runs["work"].state = "active")
       => Work.targetTimestamp[1] > Clock
  /\ \A f \in last.firedAt : f.remainingSeconds = 0 /\ ~f.isRunning

\* a run of one second or more has completed with one callback, and an
\* evaluation that came after its completion invoked nothing
C3_Witness ==
  /\ runs["work"] = [state |-> "completed", calls |-> 1]
  /\ Work.duration >= 1
  /\ last.op = "evaluate"
  /\ last.fired["work"] = 0

\* C4: when a periodic tick or a focus / visibility evaluation finds the work
\* countdown complete while phase = work, the controller stays in phase work,
\* sets breakDue, emits exactly one break-due notification for that
\* completion, and the work countdown is running again from
\* workDurationSeconds.
C4_WorkCompletion ==
  (last.op = "evaluate" /\ last.fired["work"] > 0 /\ last.firedIn = "work")
  => /\ phase = "work"
     /\ breakDue
     /\ last.fired["work"] = 1
     /\ last.notified = 1
     /\ Work.isRunning
     /\ Work.interval
     /\ Work.remainingSeconds = exercise.workDurationSeconds
     /\ Work.targetTimestamp = <<Clock + exercise.workDurationSeconds * MsPerSecond>>

C4_Witness ==
  /\ last.op = "evaluate"
  /\ last.fired = [work |-> 1, break |-> 0]
  /\ last.firedIn = "work"
  /\ last.notified = 1
  /\ phase = "work"
  /\ breakDue
  /\ Work.isRunning

\* C5: as long as no operation of the controller runs after an evaluation has
\* found the work countdown complete in phase work, through any further
\* passing of time, ticks and work completions, breakDue stays true, phase
\* stays work, and the work countdown is running with time left (it never
\* rests stopped at zero).
C5_BreakDueLatched ==
  last.streak > 0
  => /\ phase = "work"
     /\ breakDue
     /\ Work.isRunning
     /\ Work.targetTimestamp # <<>>
     /\ Work.remainingSeconds > 0

\* a second work completion in a row, with no operation of the controller
\* in between
C5_Witness ==
  /\ last.streak = 2
  /\ last.op = "evaluate"
  /\ last.fired["work"] = 1
  /\ breakDue
  /\ Work.isRunning

\* C6: a change of the exercise's durations while phase = work and the work
\* countdown is running leaves the controller in phase idle with breakDue
\* false and neither countdown running.
C6_ChangeExerciseResetsToIdle ==
  [][(phase = "work" /\ Work.isRunning /\ last'.op = "changeExercise")
     => (/\ phase' = "idle"
         /\ ~breakDue'
         /\ ~timers'["work"].isRunning
         /\ ~timers'["break"].isRunning)]_vars

\* C7: reloading the page over a composite record that the controller wrote
\* yields the phase, the breakDue and the two running flags of that record.
C7_RoundTrip ==
  [][(last'.op = "mount" /\ storage.state # <<>>)
     => (/\ phase' = storage.state[1].phase
         /\ breakDue' = storage.state[1].breakDue
         /\ timers'["work"].isRunning = storage.state[1].workRunning
         /\ timers'["break"].isRunning = storage.state[1].breakRunning)]_vars

\* the persisted target of countdown k, read before the page is opened
PersistedRemaining(k) ==
  RemainingFrom(storage[k].meta[1].targetTimestamp[1] - Clock)

ResumedFromTarget(k) ==
  (storage[k].meta # <<>> /\ storage[k].meta[1].targetTimestamp # <<>>)
  => Abs(timers'[k].remainingSeconds - PersistedRemaining(k)) <= 1

\* C8: after a reload during a running work or break phase, the countdown of
\* that phase has remainingSeconds = max(0, ceil((targetTimestamp - now) /
\* 1000)) of the persisted targetTimestamp, within one second.
C8_ResumeFromTarget ==
  [][(last'.op = "mount" /\ storage.state # <<>>)
     => (/\ (storage.state[1].phase = "work" /\ storage.state[1].workRunning)
               => ResumedFromTarget("work")
         /\ (storage.state[1].phase = "break" /\ storage.state[1].breakRunning)
               => ResumedFromTarget("break"))]_vars

\* C9: reset(), in any phase and whatever the countdowns' states, ends with
\* phase idle, breakDue false, both countdowns not running with their target
\* cleared and nothing scheduled, and each countdown's remainingSeconds equal
\* to its configured duration.
C9_Reset ==
  last.op = "reset"
  => /\ phase = "idle"
     /\ ~breakDue
     /\ \A k \in Timers :
          /\ ~timers[k].isRunning
          /\ timers[k].targetTimestamp = <<>>
          /\ ~timers[k].interval
     /\ Work.remainingSeconds = exercise.workDurationSeconds
     /\ Break.remainingSeconds = exercise.breakDurationSeconds

\* a reset whose final evaluation found the break countdown complete
C9_Witness ==
  /\ last.op = "reset"
  /\ last.fired["break"] = 1
  /\ last.firedIn = "break"
  /\ phase = "idle"

\* C10: when a periodic tick or a focus / visibility evaluation finds the
\* break countdown complete in phase break, the controller ends in phase work
\* with breakDue false, the break countdown not running at
\* breakDurationSeconds, and the work countdown running from the full
\* workDurationSeconds.
C10_BreakCompletion ==
  (last.op = "evaluate" /\ last.fired["break"] > 0 /\ last.firedIn = "break")
  => /\ phase = "work"
     /\ ~breakDue
     /\ ~Break.isRunning
     /\ Break.targetTimestamp = <<>>
     /\ Break.remainingSeconds = exercise.breakDurationSeconds
     /\ Work.isRunning
     /\ Work.remainingSeconds = exercise.workDurationSeconds
     /\ Work.targetTimestamp = <<Clock + exercise.workDurationSeconds * MsPerSecond>>

C10_Witness ==
  /\ last.op = "evaluate"
  /\ last.fired["break"] = 1
  /\ last.firedIn = "break"
  /\ phase = "work"
  /\ Work.isRunning
  /\ ~Break.isRunning

\* countdown k shows the same remaining seconds, target and running flag
\* after the step as before it
SameCountdown(k) ==
  /\ timers'[k].remainingSeconds = timers[k].remainingSeconds
  /\ timers'[k].targetTimestamp = timers[k].targetTimestamp
  /\ timers'[k].isRunning = timers[k].isRunning

\* C11: startBreak() invoked while phase = break changes nothing: phase,
\* breakDue, and both countdowns' remainingSeconds, targetTimestamp and
\* isRunning are what they were.
C11_StartBreakInBreakNoOp ==
  [][(phase = "break" /\ last'.op = "startBreak")
     => (/\ phase' = phase
         /\ breakDue' = breakDue
         /\ \A k \in Timers : SameCountdown(k))]_vars

\* C12: startBreak() invoked in phase work ends with phase = break, breakDue
\* false, the work countdown not running at workDurationSeconds, and the
\* break countdown running from the full breakDurationSeconds.
C12_StartBreakInWork ==
  (last.op = "startBreak" /\ last.from = "work")
  => /\ phase = "break"
     /\ ~breakDue
     /\ ~Work.isRunning
     /\ Work.remainingSeconds = exercise.workDurationSeconds
     /\ Break.isRunning
     /\ Break.remainingSeconds = exercise.breakDurationSeconds
     /\ Break.targetTimestamp = <<Clock + exercise.breakDurationSeconds * MsPerSecond>>

\* C13: startBreak() invoked while phase = idle changes nothing: phase stays
\* idle, breakDue, both countdowns and what is stored are what they were.
C13_StartBreakInIdleNoOp ==
  [][(phase = "idle" /\ last'.op = "startBreak")
     => UNCHANGED <<phase, breakDue, timers, storage>>]_vars

\* startBreak() was invoked in phase idle with the work countdown paused in
\* the middle of a cycle
C13_Witness ==
  /\ last.op = "startBreak"
  /\ last.from = "idle"
  /\ phase = "idle"
  /\ Work.remainingSeconds < exercise.workDurationSeconds

\* C14: pause() invoked in phase work ends with phase = idle and the work
\* countdown not running, breakDue as it was before the call, no break-due
\* notification emitted, and the break countdown untouched.
C14_PauseNoBreakSideEffects ==
  [][(phase = "work" /\ last'.op = "pause")
     => (/\ phase' = "idle"
         /\ ~timers'["work"].isRunning
         /\ breakDue' = breakDue
         /\ last'.notified = 0
         /\ timers'["break"] = timers["break"])]_vars

\* the resume point of startExercise for r remaining seconds and duration d
ResumePoint(r, d) == IF r > 0 /\ r < d THEN r ELSE d

StartedFrom(r) ==
  /\ phase' = "work"
  /\ ~breakDue'
  /\ ~timers'["break"].isRunning
  /\ timers'["break"].remainingSeconds = exercise.breakDurationSeconds
  /\ timers'["work"].isRunning
  /\ timers'["work"].remainingSeconds = r
  /\ timers'["work"].targetTimestamp = <<Clock + r * MsPerSecond>>

\* C15: a startExercise() in phase idle, under the durations it was called
\* with, ends with phase = work, breakDue false, the break countdown not
\* running at breakDurationSeconds, and the work countdown running from r,
\* where r is the work countdown's remaining seconds at the time of the call
\* if 0 < r < workDurationSeconds and workDurationSeconds otherwise.
C15_StartExerciseFromIdle ==
  [][(phase = "idle" /\ last'.op = "startExercise" /\ pending[1].exercise = exercise)
     => StartedFrom(ResumePoint(pending[1].workRemainingSeconds,
                                exercise.workDurationSeconds))]_vars

\* startExercise() in phase idle has resumed the work countdown from a paused
\* value that is short of the full duration
C15_Witness ==
  /\ last.op = "startExercise"
  /\ last.from = "idle"
  /\ phase = "work"
  /\ Work.isRunning
  /\ Work.remainingSeconds > 0
  /\ Work.remainingSeconds < exercise.workDurationSeconds

\* C18: no failure of a storage call leaves the core: whatever the task
\* (countdown operations, session persistence, rehydration), a throwing get or
\* set is caught and the task completes.
C18_StorageFailureContained == last.thrown # "storage"

\* C19: a failing notification or sound does not block phase progression:
\* when an evaluation finds the work countdown complete in phase work,
\* breakDue is true and the work countdown is running again, and when it
\* finds the break countdown complete in phase break, phase is work.
C19_SideEffectFailureSwallowed ==
  /\ (last.op = "evaluate" /\ last.fired["work"] > 0 /\ last.firedIn = "work")
       => (breakDue /\ Work.isRunning)
  /\ (last.op = "evaluate" /\ last.fired["break"] > 0 /\ last.firedIn = "break")
       => phase = "work"

\* C20: however the permission request that startExercise() awaits settles
\* (granted, denied or rejected), the controller is then in phase work with
\* the work countdown running.
C20_StartNotBlockedByPermission ==
  [][(pending # <<>> /\ pending' = <<>> /\ mounted')
     => (phase' = "work" /\ timers'["work"].isRunning)]_vars

\* the composite record read back says the work countdown was running in
\* phase work with no second left
ElapsedWork(rec) ==
  /\ Parses(rec)
  /\ Has(rec, "phase") /\ rec.phase = "work"
  /\ Has(rec, "workRunning") /\ rec.workRunning
  /\ Has(rec, "workSeconds") /\ rec.workSeconds <= 0

ElapsedBreak(rec) ==
  /\ Parses(rec)
  /\ Has(rec, "phase") /\ rec.phase = "break"
  /\ Has(rec, "breakRunning") /\ rec.breakRunning
  /\ Has(rec, "breakSeconds") /\ rec.breakSeconds <= 0

\* C16: rehydrating a record with phase work, workRunning true and remaining
\* seconds <= 0 starts no work countdown and ends in phase work with breakDue
\* true; rehydrating a record with phase break, breakRunning true and
\* remaining seconds <= 0 ends in phase work with breakDue false and the work
\* countdown running from workDurationSeconds.
C16_ElapsedOnRehydration ==
  /\ (last.rehydrated # <<>> /\ ElapsedWork(last.rehydrated[1]))
       => /\ phase = "work" /\ breakDue
          /\ ~Work.isRunning /\ Work.targetTimestamp = <<>>
          /\ last.fired["work"] = 0
  /\ (last.rehydrated # <<>> /\ ElapsedBreak(last.rehydrated[1]))
       => /\ phase = "work" /\ ~breakDue
          /\ Work.isRunning
          /\ Work.remainingSeconds = exercise.workDurationSeconds
          /\ Work.targetTimestamp
               = <<Clock + exercise.workDurationSeconds * MsPerSecond>>
          /\ ~Break.isRunning

C16_Witness ==
  /\ last.op = "mount"
  /\ last.rehydrated # <<>>
  /\ ElapsedWork(last.rehydrated[1])
  /\ ~last.rehydrated[1].breakDue
  /\ phase = "work" /\ breakDue

\* a stored record that is not one the controller can have written for the
\* exercise it is opened with
Malformed(rec) ==
  \/ ~Parses(rec)
  \/ \E field \in {"phase", "breakDue", "workRunning", "breakRunning",
                   "workSeconds", "breakSeconds"} : ~Has(rec, field)
  \/ rec.phase \notin Phases
  \/ rec.workSeconds < 0 \/ rec.workSeconds > exercise.workDurationSeconds
  \/ rec.breakSeconds < 0 \/ rec.breakSeconds > exercise.breakDurationSeconds

\* C17: malformed persisted session state (unparseable, fields missing,
\* unknown phase, numbers negative or larger than the configured duration) is
\* treated as absent: after rehydration the phase is idle, breakDue is false
\* and no countdown is running.
C17_MalformedStateIsAbsent ==
  (last.op = "mount" /\ last.rehydrated # <<>> /\ Malformed(last.rehydrated[1]))
    => (phase = "idle" /\ ~breakDue /\ ~Work.isRunning /\ ~Break.isRunning)

\* the whole seconds that cover diff milliseconds: the least n with
\* n * 1000 >= diff, for 0 < diff
SecondsUntil(diff) ==
  CHOOSE n \in 1..(MaxWork + MaxBreak + 1) :
    (n - 1) * MsPerSecond < diff /\ diff <= n * MsPerSecond

\* what is stored under the countdown's key has a target
StoredTarget == storage["work"].meta # <<>> /\ storage["work"].meta[1].targetTimestamp # <<>>

\* C21: a countdown constructed over persisted state whose targetTimestamp is
\* in the future, persisted as running, has remainingSeconds =
\* min(ceil((targetTimestamp - now) / 1000), configured duration) and
\* isRunning = true.
C21_ResumeFromFutureTarget ==
  [][(/\ ~mounted /\ mounted'
      /\ StoredTarget
      /\ storage["work"].meta[1].targetTimestamp[1] > Clock
      /\ storage["work"].meta[1].isRunning)
     => (/\ timers'["work"].remainingSeconds
              = Min(SecondsUntil(storage["work"].meta[1].targetTimestamp[1] - Clock),
                    timers'["work"].duration)
         /\ timers'["work"].isRunning)]_vars

\* a countdown has been constructed mid-run, half a second before its target
C21_Witness ==
  /\ last.op = "mount"
  /\ Work.isRunning
  /\ Work.targetTimestamp = <<Clock + TimeStep>>
  /\ Work.remainingSeconds = 1

\* C22: a countdown constructed over persisted state whose targetTimestamp is
\* at or before now has remainingSeconds = 0 and isRunning = false, whatever
\* seconds and running flag are persisted with it.
C22_StaleResume ==
  [][(/\ ~mounted /\ mounted'
      /\ StoredTarget
      /\ storage["work"].meta[1].targetTimestamp[1] <= Clock)
     => (timers'["work"].remainingSeconds = 0 /\ ~timers'["work"].isRunning)]_vars

\* a countdown has been constructed over a target that had passed, with a
\* duration of a second or more
C22_Witness ==
  /\ last.op = "mount"
  /\ Work.targetTimestamp = <<Clock>>
  /\ Work.duration >= 1
  /\ Work.remainingSeconds = 0
  /\ ~Work.isRunning

\* a countdown has just been constructed as running, its target ahead
RestoredLive ==
  /\ last.op = "mount"
  /\ Work.isRunning
  /\ Work.targetTimestamp # <<>>
  /\ Work.targetTimestamp[1] > Clock

\* the completion callback has been invoked, or the countdown has been
\* operated again or closed
FiredOrOperated ==
  \/ last.fired["work"] > 0
  \/ last.op \in {"start", "stop", "reset", "restart", "unload"}

\* C23: a countdown constructed over persisted state as running, with its
\* target in the future, resumes live: with no further start call, time
\* passing and its periodic tick alone lead to the completion callback.
C23_RestoredRunsToCompletion == RestoredLive ~> FiredOrOperated

\* C24: in every state of a countdown, the state right after construction
\* over persisted data included, targetTimestamp is null exactly when
\* isRunning is false.
C24_TargetIffRunning ==
  mounted => ((Work.targetTimestamp = <<>>) <=> ~Work.isRunning)

\* C25: in every state each countdown's remainingSeconds is between 0 and
\* its currently configured duration: work at most workDurationSeconds, break
\* at most breakDurationSeconds, also after rehydration and after the
\* configured duration has been changed to a smaller one.
C25_RemainingWithinDuration ==
  mounted =>
    /\ 0 <= Work.remainingSeconds
    /\ Work.remainingSeconds <= exercise.workDurationSeconds
    /\ 0 <= Break.remainingSeconds
    /\ Break.remainingSeconds <= exercise.breakDurationSeconds

\* C26: every evaluation of a running countdown (periodic tick, focus,
\* visibility regained) sets remainingSeconds to
\* max(0, ceil((targetTimestamp - now) / 1000)), however many periodic ticks
\* were missed: a countdown that is still running after an evaluation shows
\* the whole seconds that cover the time left, an evaluation that finds the
\* target passed leaves 0, and remainingSeconds is never 0 while the target
\* is in the future.
C26_DriftCorrection ==
  /\ (last.op = "evaluate" /\ Work.targetTimestamp # <<>>)
       => /\ Work.targetTimestamp[1] > Clock
          /\ Work.remainingSeconds = SecondsUntil(Work.targetTimestamp[1] - Clock)
  /\ (last.op = "evaluate" /\ last.fired["work"] > 0)
       => Work.remainingSeconds = 0
  /\ (Work.targetTimestamp # <<>> /\ Work.targetTimestamp[1] > Clock)
       => Work.remainingSeconds > 0

\* an evaluation that came 1500 ms into a run of 2 seconds, after a periodic
\* tick was missed
C26_Witness ==
  /\ last.op = "evaluate"
  /\ Work.duration = 2
  /\ Work.isRunning
  /\ Work.targetTimestamp = <<Clock + TimeStep>>
  /\ Work.remainingSeconds = 1

\* C27: stop() is idempotent: a stop() called right after a stop() leaves
\* remainingSeconds as it was, targetTimestamp null and isRunning false, and
\* invokes no completion callback.
C27_StopIdempotent ==
  [][(last.op = "stop" /\ last'.op = "stop")
     => (/\ timers'["work"].remainingSeconds = timers["work"].remainingSeconds
         /\ timers["work"].targetTimestamp = <<>>
         /\ timers'["work"].targetTimestamp = <<>>
         /\ ~timers["work"].isRunning
         /\ ~timers'["work"].isRunning
         /\ last'.fired["work"] = 0)]_vars

\* stop() has been called twice in a row on a run whose target had passed:
\* the first call invoked the callback
C27_Witness ==
  /\ last.op = "stop"
  /\ last.stoppedAgain
  /\ runs["work"] = [state |-> "completed", calls |-> 1]
  /\ last.fired["work"] = 0

\* nothing of the countdown is scheduled and it is not running
Halted ==
  /\ ~Work.isRunning
  /\ Work.targetTimestamp = <<>>
  /\ ~Work.interval
  /\ ~Work.restartTimeout

\* C28: after stop() or reset() no periodic tick and no auto-restart of the
\* countdown is left scheduled, and from then until the next start() no tick,
\* focus or visibility event and no passing of time changes remainingSeconds
\* or isRunning or invokes the completion callback.
C28_Cancellation ==
  [][/\ (last'.op \in {"stop", "reset"}) => Halted'
     /\ Halted => last'.op # "restart"
     /\ (Halted /\ last'.op \in {"evaluate", "advance"})
          => /\ Halted'
             /\ timers'["work"].remainingSeconds = timers["work"].remainingSeconds
             /\ last'.fired["work"] = 0]_vars

\* stop() has been called on a countdown with the auto-restart option whose
\* target had passed: its evaluation completed the run and scheduled the
\* restart, which stop() then cancelled
C28_Witness ==
  /\ last.op = "stop"
  /\ Work.autoRestart
  /\ last.fired["work"] = 1
  /\ Halted

\* the run that a restart begins is running from the last duration
RestartedRun ==
  /\ timers'["work"].isRunning
  /\ timers'["work"].interval
  /\ timers'["work"].remainingSeconds = timers["work"].duration
  /\ timers'["work"].targetTimestamp
       = <<Clock + timers["work"].duration * MsPerSecond>>

\* a task in which the countdown completed under the auto-restart option ends
\* with the countdown stopped at 0, its callback invoked, and the restart
\* scheduled and not yet made
CompletedThenScheduled ==
  (/\ last'.fired["work"] > 0
   /\ timers'["work"].autoRestart
   /\ last'.op \in {"evaluate", "start", "restart"})
  => /\ ~timers'["work"].isRunning
     /\ timers'["work"].remainingSeconds = 0
     /\ timers'["work"].targetTimestamp = <<>>
     /\ timers'["work"].restartTimeout
     /\ \A f \in last'.firedAt : ~f.isRunning /\ f.remainingSeconds = 0

\* the restart is a later step of its own, taken from the stopped countdown,
\* and calls start with the last duration
RestartIsLaterStep ==
  last'.op = "restart"
  => /\ timers["work"].restartTimeout
     /\ ~timers["work"].isRunning
     /\ timers'["work"].duration = timers["work"].duration

\* C29 (as amended): with the auto-restart option a completing countdown
\* first stops itself and invokes the completion callback, and only in a
\* separate later scheduled step calls start again with the last duration;
\* when that duration is 1 second or more the restarted run has isRunning =
\* true and remainingSeconds equal to the duration (a restarted run of 0
\* seconds completes within the restart step and schedules the next).
C29_AutoRestartLaterStep ==
  [][/\ CompletedThenScheduled
     /\ RestartIsLaterStep
     /\ (last'.op = "restart" /\ timers["work"].duration >= 1)
          => (RestartedRun /\ last'.fired["work"] = 0)]_vars

C29_Witness ==
  /\ last.op = "restart"
  /\ Work.duration >= 1
  /\ Work.isRunning
  /\ Work.remainingSeconds = Work.duration

\* C29 (as stated): the same, with the restarted run running from the last
\* duration whatever that duration is.
C29_AutoRestartRunning ==
  [][/\ CompletedThenScheduled
     /\ RestartIsLaterStep
     /\ last'.op = "restart" => RestartedRun]_vars

\* C30: the controller's phase is one of idle, work, break in every state,
\* also in every state reached by rehydrating an arbitrary persisted
\* composite record.
C30_PhaseIsKnown == phase \in Phases

\* C31: for every persisted record and every fallback duration,
\* readCountdownSnapshot returns the remainingSeconds and the isRunning that
\* a countdown constructed on the same key with that duration starts with,
\* and remainingSeconds is at most the fallback duration.
C31_SnapshotAgreesWithResume ==
  last.op = "construct"
  => /\ last.snapshot[1].remainingSeconds = Work.remainingSeconds
     /\ last.snapshot[1].isRunning = Work.isRunning
     /\ last.snapshot[1].remainingSeconds <= Work.duration

\* C32: whenever phase = idle neither countdown is running.
C32_IdleNothingRunning ==
  (mounted /\ phase = "idle") => (~Work.isRunning /\ ~Break.isRunning)

\* pause() has brought a running work phase to idle
C32_Witness ==
  /\ last.op = "pause"
  /\ last.from = "work"
  /\ phase = "idle"
  /\ ~Work.isRunning
  /\ ~Break.isRunning

\* C33: whenever phase = work the work countdown is running, and whenever
\* phase = break the break countdown is running.
C33_ActivePhaseRuns ==
  /\ (mounted /\ phase = "work") => Work.isRunning
  /\ (mounted /\ phase = "break") => Break.isRunning

\* C34: a reset() or a change of the exercise that comes after
\* startExercise() was called and before its awaited requests have settled
\* is not undone when they settle: the controller stays idle with no
\* countdown running.
C34_ResetNotUndoneByPendingStart ==
  [][(/\ pending # <<>>
      /\ last.op \in {"reset", "changeExercise"}
      /\ phase = "idle"
      /\ last'.op = "startExercise")
     => (/\ phase' = "idle"
         /\ ~timers'["work"].isRunning
         /\ ~timers'["break"].isRunning)]_vars

\* C35: a break-due notification is emitted only by an evaluation (tick,
\* focus, visibility) that finds the work countdown at zero in phase work;
\* reset(), startBreak(), a change of the exercise and mounting emit none,
\* and reset(), startBreak() and a change of the exercise never turn breakDue
\* from false to true.
C35_NotificationOnlyOnObservedCompletion ==
  [][/\ last'.notified > 0
          => (last'.op = "evaluate" /\ last'.firedIn = "work")
     /\ last'.op \in {"reset", "startBreak", "changeExercise", "mount"}
          => last'.notified = 0
     /\ (last'.op \in {"reset", "startBreak", "changeExercise"} /\ ~breakDue)
          => ~breakDue']_vars

\* C36: handling a work-countdown completion always terminates: for every
\* work duration d >= 0 the chain start -> evaluation -> completion callback
\* -> start makes finitely many calls and returns, so that no task ends
\* because the calls of start nested until the stack had no room left.
C36_CompletionChainTerminates == last.thrown # "stack"

====
